---- MODULE Spec2Model ----
(***************************************************************************)
(* Model of the link-library web service of src/app.py: the in-memory      *)
(* session token map, the bounded log buffer, the library sequence with    *)
(* its write-through JSON file, the admin credential file and the HTTP     *)
(* handlers that act on them.  One action is one request, handled from     *)
(* its first statement to its response (requests run one at a time).       *)
(*                                                                         *)
(* Time is counted in hours.  Strings are kept abstract; Python's None is  *)
(* the value None below.  A dict is a function whose DOMAIN is its key     *)
(* set, so a missing key is a key outside the DOMAIN.                      *)
(***************************************************************************)
EXTENDS Integers, Sequences, FiniteSets, TLC

VARIABLES
    now,            \* datetime.now(), in hours
    active_tokens,  \* app.py:16  token -> expiry
    issued,         \* tokens generate_token has returned so far -> creation time
    server_logs,    \* app.py:20
    library_links,  \* app.py:91
    library_file,   \* content of LIBRARY_FILE on disk
    admin_file,     \* content of ADMIN_FILE on disk
    last,           \* the request handled last: inputs, response, time and
                    \* the state it found (pre)
    before,         \* the delete or pin request handled right before last
                    \* with the library it found, NoRequest when the request
                    \* before was another one
    reqs,           \* number of requests and restarts so far
    lost,           \* the tokens issued before the latest restart
    threads         \* the requests in progress when requests overlap

vars == <<now, active_tokens, issued, server_logs, library_links,
          library_file, admin_file, last, before, reqs, lost, threads>>

----------------------------------------------------------------------------
(* Program constants *)

TOKEN_EXPIRY_HOURS == 24
MAX_LOGS == 1000

(* Bounds of the exploration *)

MaxRequests == 3    \* requests and restarts in one run
MaxClock == 24      \* the clock stops advancing here
TickHours == 12     \* granularity of the clock

----------------------------------------------------------------------------
(* Values *)

None == "<None>"

Tokens == {"tokA", "tokB"}

\* A dict with the given string keys.
Dict2(k1, v1, k2, v2) == [k \in {k1, k2} |-> IF k = k1 THEN v1 ELSE v2]
Dict1(k1, v1) == [k \in {k1} |-> v1]
EmptyDict == [k \in {} |-> None]

\* dict.get(key) and dict.get(key, default)
Get(d, k) == IF k \in DOMAIN d THEN d[k] ELSE None
GetOr(d, k, dflt) == IF k \in DOMAIN d THEN d[k] ELSE dflt

\* d[k] = v on a dict
SetKey(d, k, v) == [g \in (DOMAIN d) \cup {k} |-> IF g = k THEN v ELSE d[g]]

\* Python truthiness of a str-or-None value
Truthy(v) == v # None /\ v # ""

\* {'name': name, 'url': url, 'pinned': pinned}
Link(name, url, pinned) ==
    [k \in {"name", "url", "pinned"} |->
        IF k = "name" THEN name ELSE IF k = "url" THEN url ELSE pinned]

\* A record written before the pinned flag existed.
LinkNoPin(name, url) == Dict2("name", name, "url", url)

----------------------------------------------------------------------------
(* Files.  A file is missing, holds text that json.load rejects, or holds  *)
(* JSON text.  JSON text of a list of link records is the sequence of its  *)
(* objects, each the set of its members <<key, literal>>: a string is      *)
(* written quoted, a boolean as the literal true or false.                 *)

Missing == [kind |-> "missing"]
Corrupt == [kind |-> "corrupt"]
JsonText(t) == [kind |-> "json", text |-> t]

Quote(s) == <<"str", s>>
Unquote(j) == j[2]

EncodeMember(k, v) ==
    IF k = "pinned" THEN <<k, IF v THEN "true" ELSE "false">>
    ELSE <<k, Quote(v)>>

EncodeObject(d) == {EncodeMember(k, d[k]) : k \in DOMAIN d}

\* json.dump(links, f, indent=2)
json_dump(links) == [i \in 1..Len(links) |-> EncodeObject(links[i])]

\* (mutant) any non-empty literal read as a true flag, as bool("false") is
DecodeObject_Truthy(o) ==
    [k \in {m[1] : m \in o} |->
        LET m == CHOOSE x \in o : x[1] = k
        IN  IF k = "pinned" THEN m[2] # "" ELSE Unquote(m[2])]

DecodeObject(o) ==
    [k \in {m[1] : m \in o} |->
        LET m == CHOOSE x \in o : x[1] = k
        IN  IF k = "pinned" THEN m[2] = "true" ELSE Unquote(m[2])]

\* json.load(f) of a list of link records
json_load(t) == [i \in 1..Len(t) |-> DecodeObject(t[i])]

\* load_library()
load_library(file) ==
    IF file.kind = "json" THEN json_load(file.text) ELSE <<>>

\* (mutant) a write that reports success without rewriting the file
save_library_Skipped(file, links, outcome) ==
    IF outcome = "dump" THEN Corrupt ELSE file

\* save_library(links), by how far the write gets: "ok" the file is
\* rewritten; "open" open() raises and the file is untouched; "dump" the
\* file was truncated by open() and the write raises before it is complete.
WriteOutcomes == {"ok", "open", "dump"}

save_library(file, links, outcome) ==
    IF outcome = "ok" THEN JsonText(json_dump(links))
    ELSE IF outcome = "open" THEN file
    ELSE Corrupt

AdminJson(d) == [kind |-> "json", data |-> d]

\* load_admin(): the parsed record, or None (isNone) when the file is
\* missing or json.load rejects it
load_admin(file) ==
    IF file.kind = "json" THEN [isNone |-> FALSE, data |-> file.data]
    ELSE [isNone |-> TRUE, data |-> EmptyDict]

----------------------------------------------------------------------------
(* Token management *)

NoTokens == [t \in {} |-> 0]

\* del active_tokens[token]
DelKey(tokens, token) == [t \in (DOMAIN tokens) \ {token} |-> tokens[t]]

\* (mutant) the expiry instant itself still counts as valid
NotExpired_Inclusive(t, expiry) == t <= expiry

\* datetime.now() < expiry
NotExpired(t, expiry) == t < expiry

\* is_token_valid(token): the value returned
is_token_valid(tokens, token, t) ==
    token \in DOMAIN tokens /\ NotExpired(t, tokens[token])

\* (mutant) a check sweeps every expired token out of the map
tokens_after_check_Sweep(tokens, token, t) ==
    [k \in {x \in DOMAIN tokens : NotExpired(t, tokens[x])} |-> tokens[k]]

\* is_token_valid(token): the token map it leaves
tokens_after_check(tokens, token, t) ==
    IF token \in DOMAIN tokens /\ ~NotExpired(t, tokens[token])
    THEN DelKey(tokens, token)
    ELSE tokens

\* create_session_token(): the token map after storing token
create_session_token(tokens, token, t) ==
    [k \in (DOMAIN tokens) \cup {token} |->
        IF k = token THEN t + TOKEN_EXPIRY_HOURS ELSE tokens[k]]

\* (mutant) a logout ends every session
revoke_token_All(tokens, token) == NoTokens

\* revoke_token(token)
revoke_token(tokens, token) ==
    IF token \in DOMAIN tokens THEN DelKey(tokens, token) ELSE tokens

----------------------------------------------------------------------------
(* Logging *)

\* f"[{timestamp}] {message}": an entry is kept as its message; the
\* timestamp prefix is text no handler reads back.
LogEntry(message) == message

\* (mutant) the entry goes to the console only
add_log_PrintOnly(logs, message) == logs

\* (mutant) the bound is tested before the append instead of after it
add_log_EarlyEvict(logs, message) ==
    LET appended == Append(logs, LogEntry(message))
    IN  IF Len(logs) > MAX_LOGS THEN Tail(appended) ELSE appended

\* add_log(message)
add_log(logs, message) ==
    LET appended == Append(logs, LogEntry(message))
    IN  IF Len(appended) > MAX_LOGS THEN Tail(appended) ELSE appended

----------------------------------------------------------------------------
(* Authorization header *)

NoHeader == [present |-> FALSE, scheme |-> "", cred |-> ""]
Header(scheme, cred) == [present |-> TRUE, scheme |-> scheme, cred |-> cred]

Headers ==
    {NoHeader} \cup {Header("Basic", "tokA")}
               \cup {Header("Bearer", t) : t \in Tokens}

\* auth_header and auth_header.startswith('Bearer ')
IsBearer(h) == h.present /\ h.scheme = "Bearer"

\* auth_header.split('Bearer ')[1]
BearerToken(h) == h.cred

----------------------------------------------------------------------------
(* Library helpers; index is the 0-based index of the route *)

\* 0 <= index < len(library_links)
InRange(index, links) == 0 <= index /\ index < Len(links)

\* (mutant) pop() without its argument: the last record goes
pop_Last(links, index) ==
    [k \in 1..(Len(links) - 1) |-> links[k]]

\* (mutant) the record after the one at index goes
pop_OffByOne(links, index) ==
    [k \in 1..(Len(links) - 1) |-> IF k <= index + 1 THEN links[k] ELSE links[k + 1]]

\* library_links.pop(index): the list it leaves
pop(links, index) ==
    [k \in 1..(Len(links) - 1) |-> IF k <= index THEN links[k] ELSE links[k + 1]]

\* (mutant) a record without the flag counts as pinned
IsPinned_DefaultTrue(link) == GetOr(link, "pinned", TRUE)

\* link.get('pinned', False)
IsPinned(link) == GetOr(link, "pinned", FALSE)

\* (mutant) the flag is set instead of flipped
flip_pin_Set(link) == SetKey(link, "pinned", TRUE)

\* lines 261-264: default a missing flag to False, then flip it
flip_pin(link) ==
    LET withFlag == IF "pinned" \in DOMAIN link THEN link
                    ELSE SetKey(link, "pinned", FALSE)
    IN  SetKey(withFlag, "pinned", ~withFlag["pinned"])

\* toggle_pin: the list after the flip at index
toggle_at(links, index) ==
    [k \in 1..Len(links) |-> IF k = index + 1 THEN flip_pin(links[k]) ELSE links[k]]

RECURSIVE pinned_links(_)
\* [link for link in library_links if link.get('pinned', False)]
pinned_links(links) ==
    IF links = <<>> THEN <<>>
    ELSE IF IsPinned(Head(links))
         THEN <<Head(links)>> \o pinned_links(Tail(links))
         ELSE pinned_links(Tail(links))

\* (mutant) name or url
add_accepts_Either(name, url) == Truthy(name) \/ Truthy(url)

\* name and url
add_accepts(name, url) == Truthy(name) /\ Truthy(url)

\* admin_data and username == admin_data.get("username")
\*            and password == admin_data.get("password")
credentials_match(admin_data, username, password) ==
    /\ ~admin_data.isNone
    /\ DOMAIN admin_data.data # {}
    /\ username = Get(admin_data.data, "username")
    /\ password = Get(admin_data.data, "password")

----------------------------------------------------------------------------
(* Inputs and initial contents *)

Usernames == {None, "admin", "guest"}
Passwords == {None, "secret", "wrong"}
NameInputs == {None, "", "Wiki"}
UrlInputs == {None, "", "http://wiki"}
RemoteAddrs == {"10.0.0.1"}
ForwardedFor == {<<>>, <<"203.0.113.7", "10.0.0.9">>}   \* split(',') of the header

CompleteAdminFile == AdminJson(Dict2("username", "admin", "password", "secret"))

AdminFiles ==
    { Missing, Corrupt,
      AdminJson(EmptyDict),
      AdminJson(Dict1("username", "admin")),
      CompleteAdminFile }

StoredLibraries ==
    { <<>>,
      <<LinkNoPin("Docs", "http://docs")>>,
      <<Link("Wiki", "http://wiki", TRUE),
        Link("Docs", "http://docs", FALSE),
        Link("Wiki", "http://wiki", TRUE)>> }

LibraryFiles ==
    {Missing, Corrupt} \cup {JsonText(json_dump(l)) : l \in StoredLibraries}

----------------------------------------------------------------------------
(* The state after the module is loaded: lines 16, 20 and 91 *)

NoRequest == [op |-> "none", args |-> <<>>, code |-> 0]

LibraryOps == {"add", "delete", "pin"}

\* The threads that serve overlapping requests, and a thread with no request.
Threads == {"T1", "T2"}

Idle ==
    [pc |-> "idle", op |-> "none", args |-> <<>>, checked |-> <<>>,
     acted |-> <<>>, buf |-> <<>>, code |-> 0, overlapped |-> FALSE]

AllIdle == [t \in Threads |-> Idle]

\* The state a request finds.
Snapshot ==
    [tokens |-> active_tokens, logs |-> server_logs,
     links |-> library_links, file |-> library_file]

Init ==
    /\ now = 0
    /\ active_tokens = NoTokens
    /\ issued = NoTokens
    /\ server_logs = <<>>
    /\ \/ library_file \in LibraryFiles /\ admin_file = CompleteAdminFile
       \/ library_file = Missing /\ admin_file \in AdminFiles
    /\ library_links = load_library(library_file)
    /\ last = [op |-> "start", args |-> <<>>, code |-> 0, body |-> <<>>,
               at |-> 0, pre |-> <<>>]
    /\ before = NoRequest
    /\ reqs = 0
    /\ lost = {}
    /\ threads = AllIdle

\* The response of a request, and the record of the last requests.
Respond(op, args, code, body) ==
    /\ last' = [op |-> op, args |-> args, code |-> code, body |-> body,
                at |-> now, pre |-> Snapshot]
    /\ before' = IF last.op \in {"delete", "pin"} /\ last.code # 400
                 THEN [op |-> last.op, args |-> last.args, code |-> last.code,
                       links |-> last.pre.links]
                 ELSE NoRequest
    /\ reqs' = reqs + 1

CanServe == reqs < MaxRequests

----------------------------------------------------------------------------
(* Environment *)

\* Time passes.
Tick ==
    /\ now + TickHours <= MaxClock
    /\ now' = now + TickHours
    /\ UNCHANGED <<active_tokens, issued, server_logs, library_links,
                   library_file, admin_file, last, before, reqs, lost, threads>>

\* (mutant) the token map outlives the process
Restart_KeepSessions ==
    /\ CanServe
    /\ server_logs' = <<>>
    /\ library_links' = load_library(library_file)
    /\ lost' = DOMAIN issued
    /\ Respond("restart", <<>>, 0, <<>>)
    /\ UNCHANGED <<now, active_tokens, issued, library_file, admin_file, threads>>

\* The process is stopped and started again: the module is loaded anew.
Restart ==
    /\ CanServe
    /\ active_tokens' = NoTokens
    /\ server_logs' = <<>>
    /\ library_links' = load_library(library_file)
    /\ lost' = DOMAIN issued
    /\ Respond("restart", <<>>, 0, <<>>)
    /\ UNCHANGED <<now, issued, library_file, admin_file, threads>>

----------------------------------------------------------------------------
(* Handlers *)

\* POST /log-ip
log_ip ==
    /\ CanServe
    /\ \E remote \in RemoteAddrs, forwarded \in ForwardedFor :
         LET user_ip == IF forwarded # <<>> THEN forwarded[1] ELSE remote
         IN  /\ server_logs' = add_log(server_logs, <<"IP logged: ", user_ip>>)
             /\ Respond("log_ip", [remote |-> remote, forwarded |-> forwarded], 200,
                        [status |-> "success", ip |-> user_ip])
    /\ UNCHANGED <<now, lost, threads, active_tokens, issued, library_links, library_file, admin_file>>

\* POST /api/admin/login
admin_login ==
    /\ CanServe
    /\ \E username \in Usernames, password \in Passwords :
         LET args == [username |-> username, password |-> password]
             admin_data == load_admin(admin_file)
         IN  IF credentials_match(admin_data, username, password)
             THEN \E token \in Tokens \ DOMAIN issued :      \* generate_token()
                    /\ active_tokens' = create_session_token(active_tokens, token, now)
                    /\ issued' = [k \in (DOMAIN issued) \cup {token} |->
                                      IF k = token THEN now ELSE issued[k]]
                    /\ server_logs' = add_log(server_logs,
                                              <<"Admin login successful - Token: ", token>>)
                    /\ Respond("login", args, 200, [status |-> "success", token |-> token])
             ELSE /\ server_logs' = add_log(server_logs,
                                            <<"Admin login failed: Invalid credentials">>)
                  /\ Respond("login", args, 401,
                             [status |-> "error", message |-> "Invalid username or password"])
                  /\ UNCHANGED <<active_tokens, issued>>
    /\ UNCHANGED <<now, lost, threads, library_links, library_file, admin_file>>

\* POST /api/admin/verify
verify_token ==
    /\ CanServe
    /\ \E auth_header \in Headers :
         LET args == [auth |-> auth_header]
         IN  IF ~IsBearer(auth_header)
             THEN /\ Respond("verify", args, 401,
                             [status |-> "error", message |-> "No token provided"])
                  /\ UNCHANGED active_tokens
             ELSE LET token == BearerToken(auth_header)
                  IN  /\ active_tokens' = tokens_after_check(active_tokens, token, now)
                      /\ IF is_token_valid(active_tokens, token, now)
                         THEN Respond("verify", args, 200, [status |-> "success"])
                         ELSE Respond("verify", args, 401,
                                      [status |-> "error",
                                       message |-> "Invalid or expired token"])
    /\ UNCHANGED <<now, lost, threads, issued, server_logs, library_links, library_file, admin_file>>

\* POST /api/admin/logout
admin_logout ==
    /\ CanServe
    /\ \E auth_header \in Headers :
         /\ IF IsBearer(auth_header)
            THEN /\ active_tokens' = revoke_token(active_tokens, BearerToken(auth_header))
                 /\ server_logs' = add_log(server_logs, <<"Admin logged out">>)
            ELSE UNCHANGED <<active_tokens, server_logs>>
         /\ Respond("logout", [auth |-> auth_header], 200, [status |-> "success"])
    /\ UNCHANGED <<now, lost, threads, issued, library_links, library_file, admin_file>>

\* GET /api/admin/logs
get_logs ==
    /\ CanServe
    /\ \E auth_header \in Headers :
         Respond("get_logs", [auth |-> auth_header], 200, [logs |-> server_logs])
    /\ UNCHANGED <<now, lost, threads, active_tokens, issued, server_logs, library_links,
                   library_file, admin_file>>

\* (mutant) the event is logged before the buffer is emptied
clear_logs_LogFirst ==
    /\ CanServe
    /\ \E auth_header \in Headers :
         /\ server_logs' = <<>>
         /\ Respond("clear_logs", [auth |-> auth_header], 200, [status |-> "success"])
    /\ UNCHANGED <<now, lost, threads, active_tokens, issued, library_links, library_file, admin_file>>

\* DELETE /api/admin/logs
clear_logs ==
    /\ CanServe
    /\ \E auth_header \in Headers :
         /\ server_logs' = add_log(<<>>, <<"Logs cleared by admin">>)
         /\ Respond("clear_logs", [auth |-> auth_header], 200, [status |-> "success"])
    /\ UNCHANGED <<now, lost, threads, active_tokens, issued, library_links, library_file, admin_file>>

\* GET /api/library
get_library ==
    /\ CanServe
    /\ Respond("get_library", <<>>, 200, [links |-> library_links])
    /\ UNCHANGED <<now, lost, threads, active_tokens, issued, server_logs, library_links,
                   library_file, admin_file>>

\* The Authorization headers tried on the library routes; no library
\* handler reads the header.
LibraryHeaders == {NoHeader, Header("Bearer", "tokA")}

\* (mutant) a write that raises puts the in-memory sequence back
SaveAndRespond_Rollback(op, args, links, message) ==
    \E outcome \in WriteOutcomes :
         /\ library_file' = save_library(library_file, links, outcome)
         /\ IF outcome = "ok"
            THEN /\ library_links' = links
                 /\ server_logs' = add_log(server_logs, message)
                 /\ Respond(op, args, 200, [status |-> "success", links |-> links])
            ELSE /\ UNCHANGED <<library_links, server_logs>>
                 /\ Respond(op, args, 500, [status |-> "fault"])

\* A library mutation after its in-memory step: save_library, then add_log
\* and the success response; a write that raises ends the request with a
\* server error before add_log.
SaveAndRespond(op, args, links, message) ==
    /\ library_links' = links
    /\ \E outcome \in WriteOutcomes :
         /\ library_file' = save_library(library_file, links, outcome)
         /\ IF outcome = "ok"
            THEN /\ server_logs' = add_log(server_logs, message)
                 /\ Respond(op, args, 200, [status |-> "success", links |-> links])
            ELSE /\ UNCHANGED server_logs
                 /\ Respond(op, args, 500, [status |-> "fault"])

\* Invalid input of a library mutation
Reject(op, args, message) ==
    /\ Respond(op, args, 400, [status |-> "error", message |-> message])
    /\ UNCHANGED <<server_logs, library_links, library_file>>

\* POST /api/library, sent with one of the given Authorization headers
AddLink(headers) ==
    /\ CanServe
    /\ \E name \in NameInputs, url \in UrlInputs, auth_header \in headers :
         LET args == [name |-> name, url |-> url, auth |-> auth_header]
         IN  IF add_accepts(name, url)
             THEN SaveAndRespond("add", args,
                                 Append(library_links, Link(name, url, FALSE)),
                                 <<"Added to library: ", name, " - ", url>>)
             ELSE Reject("add", args, "Name and URL required")
    /\ UNCHANGED <<now, lost, threads, active_tokens, issued, admin_file>>

\* The indices tried: every position, and one on either side.
Indices == -1 .. Len(library_links)

\* (mutant) the route is refused without a valid token
DeleteLink_Gated(headers) ==
    /\ CanServe
    /\ \E index \in Indices, auth_header \in headers :
         IF ~(IsBearer(auth_header)
              /\ is_token_valid(active_tokens, BearerToken(auth_header), now))
         THEN /\ Respond("delete", [index |-> index, auth |-> auth_header], 401,
                         [status |-> "error", message |-> "Unauthorized"])
              /\ UNCHANGED <<server_logs, library_links, library_file>>
         ELSE IF InRange(index, library_links)
         THEN LET removed == library_links[index + 1]
              IN  SaveAndRespond("delete",
                                 [index |-> index, removed |-> removed, auth |-> auth_header],
                                 pop(library_links, index),
                                 <<"Removed from library: ", removed["name"]>>)
         ELSE Reject("delete", [index |-> index, auth |-> auth_header], "Invalid index")
    /\ UNCHANGED <<now, lost, threads, active_tokens, issued, admin_file>>

\* DELETE /api/library/<int:index>, sent with one of the given headers
DeleteLink(headers) ==
    /\ CanServe
    /\ \E index \in Indices, auth_header \in headers :
         IF InRange(index, library_links)
         THEN LET removed == library_links[index + 1]
              IN  SaveAndRespond("delete",
                                 [index |-> index, removed |-> removed, auth |-> auth_header],
                                 pop(library_links, index),
                                 <<"Removed from library: ", removed["name"]>>)
         ELSE Reject("delete", [index |-> index, auth |-> auth_header], "Invalid index")
    /\ UNCHANGED <<now, lost, threads, active_tokens, issued, admin_file>>

\* POST /api/library/<int:index>/pin, sent with one of the given headers
TogglePin(headers) ==
    /\ CanServe
    /\ \E index \in Indices, auth_header \in headers :
         IF InRange(index, library_links)
         THEN LET links == toggle_at(library_links, index)
                  status == IF links[index + 1]["pinned"] THEN "pinned" ELSE "unpinned"
              IN  SaveAndRespond("pin",
                                 [index |-> index, was |-> IsPinned(library_links[index + 1]),
                                  auth |-> auth_header],
                                 links,
                                 <<"Link ", status, ": ", links[index + 1]["name"]>>)
         ELSE Reject("pin", [index |-> index, auth |-> auth_header], "Invalid index")
    /\ UNCHANGED <<now, lost, threads, active_tokens, issued, admin_file>>

\* The library routes as a client without a token calls them.
add_library_link == AddLink({NoHeader})

delete_library_link == DeleteLink({NoHeader})

toggle_pin == TogglePin({NoHeader})

\* GET /api/pinned
get_pinned ==
    /\ CanServe
    /\ Respond("get_pinned", <<>>, 200, [links |-> pinned_links(library_links)])
    /\ UNCHANGED <<now, lost, threads, active_tokens, issued, server_logs, library_links,
                   library_file, admin_file>>

----------------------------------------------------------------------------

Next ==
    \/ Tick
    \/ Restart
    \/ log_ip
    \/ get_logs
    \/ clear_logs
    \/ admin_login
    \/ verify_token
    \/ admin_logout
    \/ get_library
    \/ add_library_link
    \/ delete_library_link
    \/ toggle_pin
    \/ get_pinned

Spec == Init /\ [][Next]_vars

----------------------------------------------------------------------------
(* The same server once POST /log-ip has been served MAX_LOGS - 1 times,  *)
(* each time for another client: the log buffer is one entry short of     *)
(* full.                                                                  *)

LoggedIps == [k \in 1..(MAX_LOGS - 1) |-> LogEntry(<<"IP logged: ", ToString(k)>>)]

InitLog ==
    /\ now = 0
    /\ active_tokens = NoTokens
    /\ issued = NoTokens
    /\ server_logs = LoggedIps
    /\ library_file \in {Missing, JsonText(json_dump(<<LinkNoPin("Docs", "http://docs")>>))}
    /\ admin_file = CompleteAdminFile
    /\ library_links = load_library(library_file)
    /\ last = [op |-> "start", args |-> <<>>, code |-> 0, body |-> <<>>,
               at |-> 0, pre |-> <<>>]
    /\ before = NoRequest
    /\ reqs = 1        \* the requests that filled the buffer count as one
    /\ lost = {}
    /\ threads = AllIdle

SpecLog == InitLog /\ [][Next]_vars

\* Sessions and the library: logins, logouts, the clock, and the library
\* routes called with and without a token.
add_library_link_auth == AddLink(LibraryHeaders)

delete_library_link_auth == DeleteLink(LibraryHeaders)

toggle_pin_auth == TogglePin(LibraryHeaders)

NextAuth ==
    \/ Tick
    \/ admin_login
    \/ admin_logout
    \/ add_library_link_auth
    \/ delete_library_link_auth
    \/ toggle_pin_auth

\* The server starts with a library on file.
InitAuth == Init /\ library_links # <<>>

SpecAuth == InitAuth /\ [][NextAuth]_vars

----------------------------------------------------------------------------
(* Overlapping requests.  The development server serves each request on   *)
(* its own thread and the handlers take no lock, so the statements of two  *)
(* library mutations interleave.  A request goes through: the test of its  *)
(* input, the in-memory mutation, and save_library, itself open() (the     *)
(* file is truncated), json.dump (the text goes to the buffer of the file  *)
(* object) and the exit of the with block (the buffer is written at the    *)
(* start of the file), then add_log and the response.  File writes do not  *)
(* fail here.                                                              *)

\* Number of characters of the literal of a member, of an object and of the
\* text json.dump(..., indent=2) writes for a list of objects.
LiteralLen(m) == IF m[1] = "pinned" THEN Len(m[2]) ELSE Len(m[2][2]) + 2

MemberLen(o, k) ==
    IF \E m \in o : m[1] = k
    THEN LET m == CHOOSE x \in o : x[1] = k
         IN  4 + Len(k) + 2 + 2 + LiteralLen(m) + 2
    ELSE 0

\* "  {" newline, the members joined by "," newline, newline "  }"
ObjectLen(o) ==
    4 + MemberLen(o, "name") + MemberLen(o, "url") + MemberLen(o, "pinned") - 2 + 4

RECURSIVE ObjectsLen(_)
ObjectsLen(t) == IF t = <<>> THEN 0 ELSE ObjectLen(Head(t)) + 2 + ObjectsLen(Tail(t))

\* "[" newline, the objects joined by "," newline, newline "]"; "[]" when empty
TextLen(t) == IF t = <<>> THEN 2 ELSE 2 + ObjectsLen(t) - 2 + 2

\* open(LIBRARY_FILE, 'w'): the file exists and is empty
Truncated == [kind |-> "empty"]

\* (mutant) the buffer is dropped when the file object is closed
flush_Discarded(file, buf) == file

\* The file after a buffer is written at offset 0 and the file object is
\* closed: the buffer alone when the file holds no more characters than the
\* buffer, otherwise the buffer followed by the rest of what another file
\* object wrote, which json.load rejects.
flush(file, buf) ==
    IF file.kind = "empty" THEN JsonText(buf)
    ELSE IF file.kind = "json" /\ TextLen(buf) >= TextLen(file.text) THEN JsonText(buf)
    ELSE Corrupt

\* The libraries overlapping requests start from; with the record an add
\* appends, the records of a run differ in their names.
ConcLibraries ==
    { <<Link("Home", "http://home", FALSE)>>,
      <<Link("Docs", "http://docs", TRUE), LinkNoPin("Blog", "http://blog")>> }

InitConc ==
    /\ now = 0
    /\ active_tokens = NoTokens
    /\ issued = NoTokens
    /\ server_logs = <<>>
    /\ \E l \in ConcLibraries : library_file = JsonText(json_dump(l))
    /\ library_links = load_library(library_file)
    /\ admin_file = CompleteAdminFile
    /\ last = [op |-> "start", args |-> <<>>, code |-> 0, body |-> <<>>,
               at |-> 0, pre |-> <<>>]
    /\ before = NoRequest
    /\ reqs = 0
    /\ lost = {}
    /\ threads = AllIdle

Other(t) == CHOOSE u \in Threads : u # t

InProgress(t) == threads[t].pc \notin {"idle", "done"}

\* Thread t moves on.
Step(t, fields) ==
    threads' = [threads EXCEPT ![t] = [f \in DOMAIN Idle |->
                    IF f \in DOMAIN fields THEN fields[f] ELSE threads[t][f]]]

\* The response ends the request.
Done(t, code) == Step(t, [pc |-> "done", code |-> code])

Fixed == <<now, active_tokens, issued, admin_file, last, before, reqs, lost>>

\* A request arrives while the other thread is idle, busy or done.
Begin(t) ==
    /\ threads[t].pc = "idle"
    /\ \E op \in LibraryOps :
         \E args \in IF op = "add"
                     THEN {[name |-> n, url |-> "http://wiki"] : n \in {"", "Wiki"}}
                     ELSE {[index |-> i] : i \in Indices} :
            threads' = [u \in Threads |->
                IF u = t
                THEN [Idle EXCEPT !.pc = "check", !.op = op, !.args = args,
                                  !.overlapped = InProgress(Other(t))]
                ELSE [threads[u] EXCEPT !.overlapped = @ \/ InProgress(u)]]
    /\ UNCHANGED <<Fixed, server_logs, library_links, library_file>>

\* Lines 234, 245 and 259: the test of the input.
Check(t) ==
    /\ threads[t].pc = "check"
    /\ LET th == threads[t]
       IN  IF th.op = "add"
           THEN IF add_accepts(th.args.name, th.args.url)
                THEN Step(t, [pc |-> "mutate"])
                ELSE Done(t, 400)
           ELSE IF InRange(th.args.index, library_links)
                THEN Step(t, [pc |-> "mutate",
                              checked |-> library_links[th.args.index + 1]])
                ELSE Done(t, 400)
    /\ UNCHANGED <<Fixed, server_logs, library_links, library_file>>

\* Lines 235, 246 and 261-264: the mutation of the shared list; pop(index)
\* and library_links[index] raise IndexError past the end of the list.
Mutate(t) ==
    /\ threads[t].pc = "mutate"
    /\ LET th == threads[t]
       IN  IF th.op = "add"
           THEN /\ library_links' = Append(library_links,
                                           Link(th.args.name, th.args.url, FALSE))
                /\ Step(t, [pc |-> "open"])
           ELSE IF th.args.index >= Len(library_links)
                THEN /\ Done(t, 500)
                     /\ UNCHANGED library_links
                ELSE /\ library_links' =
                          IF th.op = "delete" THEN pop(library_links, th.args.index)
                          ELSE toggle_at(library_links, th.args.index)
                     /\ Step(t, [pc |-> "open",
                                 acted |-> library_links[th.args.index + 1]])
    /\ UNCHANGED <<Fixed, server_logs, library_file>>

\* Line 87: open(LIBRARY_FILE, 'w')
Open(t) ==
    /\ threads[t].pc = "open"
    /\ library_file' = Truncated
    /\ Step(t, [pc |-> "dump"])
    /\ UNCHANGED <<Fixed, server_logs, library_links>>

\* Line 88: json.dump(links, f, indent=2) into the buffer of f
Dump(t) ==
    /\ threads[t].pc = "dump"
    /\ Step(t, [pc |-> "close", buf |-> json_dump(library_links)])
    /\ UNCHANGED <<Fixed, server_logs, library_links, library_file>>

\* Line 87: the with block closes f
Close(t) ==
    /\ threads[t].pc = "close"
    /\ library_file' = flush(library_file, threads[t].buf)
    /\ Step(t, [pc |-> "finish"])
    /\ UNCHANGED <<Fixed, server_logs, library_links>>

\* Lines 237-238, 248-249 and 266-268: add_log and the response; toggle_pin
\* reads library_links[index]['pinned'] once more for its message, which
\* raises IndexError past the end of the list and KeyError on a record
\* without the flag.
RereadFails(th) ==
    /\ th.op = "pin"
    /\ \/ th.args.index >= Len(library_links)
       \/ "pinned" \notin DOMAIN library_links[th.args.index + 1]

Finish(t) ==
    /\ threads[t].pc = "finish"
    /\ LET th == threads[t]
       IN  IF RereadFails(th)
           THEN /\ Done(t, 500)
                /\ UNCHANGED server_logs
           ELSE /\ server_logs' = add_log(server_logs,
                     IF th.op = "add"
                     THEN <<"Added to library: ", th.args.name, " - ", th.args.url>>
                     ELSE IF th.op = "delete"
                     THEN <<"Removed from library: ", th.acted["name"]>>
                     ELSE LET link == library_links[th.args.index + 1]
                          IN  <<"Link ", IF link["pinned"] THEN "pinned" ELSE "unpinned",
                                ": ", link["name"]>>)
                /\ Done(t, 200)
    /\ UNCHANGED <<Fixed, library_links, library_file>>

NextConc ==
    \E t \in Threads :
        \/ Begin(t)
        \/ Check(t)
        \/ Mutate(t)
        \/ Open(t)
        \/ Dump(t)
        \/ Close(t)
        \/ Finish(t)

SpecConc == InitConc /\ [][NextConc]_vars

----------------------------------------------------------------------------
(* Properties *)

\* The request handled last carried a bearer token that was valid when it
\* arrived.
CarriedValidToken ==
    /\ IsBearer(last.args.auth)
    /\ is_token_valid(last.pre.tokens, BearerToken(last.args.auth), last.at)

AdminOps == {"verify", "logout", "get_logs", "clear_logs"}

\* C1: verify, logout, log retrieval and log clearing answer 401 and leave
\* the log buffer alone (neither returned nor cleared nor appended to) when
\* the request carries no token, an unknown token or an expired token.
C1_AdminActionsNeedToken ==
    (last.op \in AdminOps /\ ~CarriedValidToken) =>
        /\ last.code = 401
        /\ "logs" \notin DOMAIN last.body
        /\ server_logs = last.pre.logs

\* The stored record holds both fields and the body repeats both exactly.
ExactMatch ==
    /\ admin_file.kind = "json"
    /\ {"username", "password"} \subseteq DOMAIN admin_file.data
    /\ last.args.username # None
    /\ last.args.password # None
    /\ last.args.username = admin_file.data["username"]
    /\ last.args.password = admin_file.data["password"]

\* C2: whatever the admin file holds and whatever fields the body has, a
\* login adds a token and answers success only on an exact match of the
\* submitted and the stored username and password; any other login answers
\* 401 and leaves the token map as it was.
C2_LoginOnlyOnExactMatch ==
    last.op = "login" =>
        IF ExactMatch
        THEN /\ last.code = 200
             /\ last.body.token \in DOMAIN active_tokens
             /\ last.body.token \notin DOMAIN last.pre.tokens
        ELSE /\ last.code = 401
             /\ active_tokens = last.pre.tokens

\* C3: a verify of an issued token answers success whenever the token is
\* still in the map and less than 24 hours have passed since it was created;
\* from 24 hours on it answers 401 and the token is no key of the map
\* afterwards.
C3_TokenLifetime ==
    (last.op = "verify" /\ IsBearer(last.args.auth)
        /\ BearerToken(last.args.auth) \in DOMAIN issued) =>
        LET token == BearerToken(last.args.auth)
            expiry == issued[token] + TOKEN_EXPIRY_HOURS
        IN  /\ (token \in DOMAIN last.pre.tokens /\ last.at < expiry)
                    => (last.code = 200 /\ token \in DOMAIN active_tokens)
            /\ last.at >= expiry
                    => (last.code = 401 /\ token \notin DOMAIN active_tokens)

\* C3, its case: a token still in the map is checked at its expiry or later.
C3_Witness ==
    /\ last.op = "verify" /\ IsBearer(last.args.auth)
    /\ BearerToken(last.args.auth) \in DOMAIN last.pre.tokens
    /\ last.at >= issued[BearerToken(last.args.auth)] + TOKEN_EXPIRY_HOURS
    /\ last.code = 401

\* C3, its other case: a token is accepted some time after it was created.
C3_WitnessAccepted ==
    /\ last.op = "verify" /\ last.code = 200
    /\ last.at > issued[BearerToken(last.args.auth)]

\* The last request went through add_log.
AppendedLog ==
    \/ last.op \in {"log_ip", "login"}
    \/ last.op = "logout" /\ IsBearer(last.args.auth)
    \/ last.op \in {"add", "delete", "pin"} /\ last.code = 200

\* The entry the last request is to append, read off its inputs and response.
NewEntry ==
    CASE last.op = "log_ip" -> <<"IP logged: ", last.body.ip>>
      [] last.op = "login" /\ last.code = 200 ->
            <<"Admin login successful - Token: ", last.body.token>>
      [] last.op = "login" /\ last.code # 200 ->
            <<"Admin login failed: Invalid credentials">>
      [] last.op = "logout" -> <<"Admin logged out">>
      [] last.op = "add" ->
            <<"Added to library: ", last.args.name, " - ", last.args.url>>
      [] last.op = "delete" ->
            <<"Removed from library: ", last.args.removed["name"]>>
      [] last.op = "pin" ->
            <<"Link ", IF last.args.was THEN "unpinned" ELSE "pinned", ": ",
              last.pre.links[last.args.index + 1]["name"]>>

\* C4: the log buffer never holds more than MAX_LOGS entries, and an append
\* to a buffer of MAX_LOGS entries drops exactly the front entry: the other
\* MAX_LOGS - 1 keep their order and the new entry follows them.
C4_LogBounded ==
    /\ Len(server_logs) <= MAX_LOGS
    /\ (AppendedLog /\ Len(last.pre.logs) = MAX_LOGS) =>
          /\ Len(server_logs) = MAX_LOGS
          /\ \A k \in 1..(MAX_LOGS - 1) : server_logs[k] = last.pre.logs[k + 1]
          /\ server_logs[MAX_LOGS] = NewEntry

\* C4, its case: an entry was appended to a full buffer.
C4_Witness ==
    /\ AppendedLog
    /\ Len(last.pre.logs) = MAX_LOGS
    /\ server_logs[1] = last.pre.logs[2]

LibraryMutations == {"add", "delete", "pin"}

\* C5: after every add, delete or pin-toggle that answers success, the
\* library file read back gives the in-memory sequence, which is also the
\* sequence the response reported.
C5_WriteThrough ==
    (last.op \in LibraryMutations /\ last.code = 200) =>
        /\ load_library(library_file) = library_links
        /\ last.body.links = library_links

\* C5, its case: a successful mutation of a library whose records were
\* loaded from a file that disagreed with memory before the request.
C5_Witness ==
    /\ last.op \in {"delete", "pin"} /\ last.code = 200
    /\ Len(library_links) >= 2
    /\ load_library(last.pre.file) # last.pre.links

\* C6: after an add of a non-empty name and url that answers success, the
\* file read back is the sequence the request found, unchanged, followed by
\* the one new record {name, url, pinned: false}.
C6_AddThenReload ==
    (last.op = "add" /\ last.code = 200) =>
        LET reloaded == load_library(library_file)
            prior == last.pre.links
            new == reloaded[Len(reloaded)]
        IN  /\ Len(reloaded) = Len(prior) + 1
            /\ \A k \in 1..Len(prior) : reloaded[k] = prior[k]
            /\ DOMAIN new = {"name", "url", "pinned"}
            /\ new["name"] = last.args.name
            /\ new["url"] = last.args.url
            /\ new["pinned"] = FALSE

\* C6, its cases: an add to a library that is not empty, and an add to a
\* library that started empty because the file was unparseable.
C6_Witness ==
    /\ last.op = "add" /\ last.code = 200
    /\ Len(last.pre.links) >= 2

C6_WitnessCorrupt ==
    /\ last.op = "add" /\ last.code = 200
    /\ last.pre.file.kind = "corrupt"
    /\ last.pre.links = <<>>

\* The number of positions of seq that hold a record equal to r.
Occurrences(seq, r) == Cardinality({k \in 1..Len(seq) : seq[k] = r})

\* A pinned list was asked for right after a delete went through.
PinnedAfterDelete ==
    /\ last.op = "get_pinned"
    /\ before.op = "delete"

\* C7 as claimed: the pinned list taken right after a delete holds no record
\* equal to the removed one, duplicates of it included.
C7_RemovedNeverListed ==
    PinnedAfterDelete =>
        \A k \in 1..Len(last.body.links) : last.body.links[k] # before.args.removed

\* C7 as amended: the pinned list taken right after removeAt(i) holds the
\* removed record exactly as often as the sequence before the delete held an
\* equal pinned record at a position other than i: never when the removed
\* record was unpinned or had no equal.
C7_RemovedListedOnlyAsDuplicate ==
    PinnedAfterDelete =>
        LET removed == before.args.removed
            prior == before.links
            others == {k \in 1..Len(prior) :
                         /\ k # before.args.index + 1
                         /\ prior[k] = removed
                         /\ IsPinned(prior[k])}
        IN  Occurrences(last.body.links, removed) = Cardinality(others)

\* C7, its case: a pinned record without an equal is removed and the pinned
\* list that follows still lists other records.
C7_Witness ==
    /\ PinnedAfterDelete
    /\ IsPinned(before.args.removed)
    /\ Occurrences(before.links, before.args.removed) = 1
    /\ last.body.links # <<>>

\* C8: a pin-toggle keeps the length of the sequence, the name and url of
\* the record at its index and every other record; a second toggle at the
\* same index right after the first gives the record the pinned value it had
\* before the first (a missing flag counting as false).
C8_ToggleTwice ==
    (last.op = "pin" /\ last.code # 400) =>
        LET i == last.args.index + 1
            prior == last.pre.links
        IN  /\ Len(library_links) = Len(prior)
            /\ \A k \in 1..Len(prior) : k # i => library_links[k] = prior[k]
            /\ library_links[i]["name"] = prior[i]["name"]
            /\ library_links[i]["url"] = prior[i]["url"]
            /\ (before.op = "pin" /\ before.args.index = last.args.index) =>
                  IsPinned(library_links[i]) = IsPinned(before.links[i])

\* C8, its case: two toggles in a row of a record stored without the flag.
C8_Witness ==
    /\ last.op = "pin" /\ last.code = 200
    /\ before.op = "pin" /\ before.args.index = last.args.index
    /\ "pinned" \notin DOMAIN before.links[before.args.index + 1]
    /\ Len(library_links) >= 1

\* C9: a delete at an in-range index i leaves a sequence one shorter in
\* which the records before i stay where they were and every record after i
\* has moved down by one, unaltered.
C9_RemoveShifts ==
    (last.op = "delete" /\ last.code # 400) =>
        LET i == last.args.index
            prior == last.pre.links
        IN  /\ 0 <= i /\ i < Len(prior)
            /\ Len(library_links) = Len(prior) - 1
            /\ \A j \in 0..(Len(prior) - 1) :
                  /\ j < i => library_links[j + 1] = prior[j + 1]
                  /\ j > i => library_links[j] = prior[j + 1]

\* C9, its case: a record with records on either side is removed.
C9_Witness ==
    /\ last.op = "delete" /\ last.code = 200
    /\ 0 < last.args.index
    /\ last.args.index < Len(last.pre.links) - 1

C10_WitnessAdd ==
    /\ last.op = "add" /\ last.code = 400
    /\ last.args.name = "Wiki" /\ last.args.url = ""
    /\ DOMAIN active_tokens # {}

----------------------------------------------------------------------------
(* C11 *)

Quiescent == \A t \in Threads : threads[t].pc = "done"

BothSucceeded == \A t \in Threads : threads[t].code = 200

Overlapped == \E t \in Threads : threads[t].overlapped

\* C11: two library mutations that overlap can both answer success and
\* leave a file that lacks the effect of one of them.  Once both requests
\* have answered success the file holds the text one of them dumped, or the
\* remains of both texts; it can differ from the in-memory sequence only
\* when the requests overlapped, and without overlap it is the JSON text of
\* the in-memory sequence.
C11_LossOnlyWhenOverlapped ==
    (Quiescent /\ BothSucceeded) =>
        /\ \/ library_file = Corrupt
           \/ \E t \in Threads : library_file = JsonText(threads[t].buf)
        /\ ~Overlapped => library_file = JsonText(json_dump(library_links))

\* Both requests answered success, the file is valid JSON written by one of
\* them, and it is not the in-memory sequence, which holds both effects.
C11_Witness ==
    /\ Quiescent /\ BothSucceeded /\ Overlapped
    /\ library_file.kind = "json"
    /\ load_library(library_file) # library_links
    /\ threads["T1"].op = "add" /\ threads["T2"].op = "delete"
    /\ library_file = JsonText(threads["T1"].buf)
    /\ Len(library_links) = Len(threads["T1"].buf) - 1

----------------------------------------------------------------------------
(* C12 *)

\* The token a logout request revokes, None when it carries no Bearer header
Revoked == IF IsBearer(last.args.auth) THEN BearerToken(last.args.auth) ELSE None

\* C12: a logout always answers success; it removes the token of its Bearer
\* header from the token map and nothing else, so with no header, another
\* scheme, an unknown or an already-revoked token the map is unchanged, and
\* a repeated logout leaves the map of the first.
C12_LogoutIdempotent ==
    last.op = "logout" =>
        /\ last.code = 200
        /\ last.body = [status |-> "success"]
        /\ DOMAIN active_tokens = DOMAIN last.pre.tokens \ {Revoked}
        /\ \A k \in DOMAIN active_tokens : active_tokens[k] = last.pre.tokens[k]
        /\ Revoked \notin DOMAIN last.pre.tokens => active_tokens = last.pre.tokens

\* A second logout with a token that was issued, has not expired, and is
\* gone from the map because a first logout revoked it.
C12_Witness ==
    /\ last.op = "logout" /\ last.code = 200
    /\ Revoked \in DOMAIN issued
    /\ lost = {}
    /\ last.at < issued[Revoked] + TOKEN_EXPIRY_HOURS
    /\ Revoked \notin DOMAIN last.pre.tokens
    /\ active_tokens = last.pre.tokens

----------------------------------------------------------------------------
(* C13 *)

Cleared == <<LogEntry(<<"Logs cleared by admin">>)>>

\* C13: right after clear_logs the buffer holds the "cleared" entry and
\* nothing else, whatever it held before, and get_logs returns the buffer
\* it finds and leaves it as it is.
C13_ClearLeavesOneEntry ==
    /\ last.op = "clear_logs" => server_logs = Cleared /\ last.code = 200
    /\ last.op = "get_logs" =>
          /\ last.body = [logs |-> last.pre.logs]
          /\ server_logs = last.pre.logs

\* get_logs right after a clear: it returns the single entry.
C13_Witness ==
    /\ last.op = "get_logs"
    /\ last.pre.logs = Cleared
    /\ last.body.logs = Cleared
    /\ Len(last.body.logs) = 1

----------------------------------------------------------------------------
(* C14 *)

\* C14: a restart empties the token map and rebuilds the library from the
\* file: the sequence re-encodes to the text of the file, or is empty when
\* the file is missing or is not JSON; a token issued before the restart
\* fails verify after it and is never in the map again.
C14_RestartDropsSessions ==
    /\ last.op = "restart" =>
          /\ active_tokens = NoTokens
          /\ server_logs = <<>>
          /\ IF library_file.kind = "json"
             THEN json_dump(library_links) = library_file.text
             ELSE library_links = <<>>
    /\ lost \cap DOMAIN active_tokens = {}
    /\ (last.op = "verify" /\ Revoked \in lost) => last.code = 401

\* verify of a token issued before a restart, within 24 hours of its issue.
C14_Witness ==
    /\ last.op = "verify" /\ last.code = 401
    /\ Revoked \in lost
    /\ last.at < issued[Revoked] + TOKEN_EXPIRY_HOURS

\* A restart over a file that holds records, after a mutation that failed
\* to be written: the library is the file's, not the one held before.
C14_WitnessLibrary ==
    /\ last.op = "restart"
    /\ library_file.kind = "json"
    /\ library_links # <<>>
    /\ library_links # last.pre.links

----------------------------------------------------------------------------
(* C15 *)

\* The entry of token k differs between the two maps.
EntryChanged(k, old, new) ==
    \/ (k \in DOMAIN old) # (k \in DOMAIN new)
    \/ k \in DOMAIN old /\ k \in DOMAIN new /\ old[k] # new[k]

\* C15: between the arrival of a request and any later moment before the
\* next request, the entry of a token has changed only if the request was
\* the login that returned the token, a logout with it, or a verify of it
\* made at or after its expiry; a verify that succeeds changes no entry.
C15_TokenFrame ==
    last.op \notin {"start", "restart"} =>
        /\ \A k \in Tokens :
              EntryChanged(k, last.pre.tokens, active_tokens) =>
                 \/ last.op = "login" /\ last.code = 200 /\ last.body.token = k
                 \/ last.op = "logout" /\ Revoked = k
                 \/ /\ last.op = "verify" /\ Revoked = k
                    /\ last.at >= last.pre.tokens[k]
        /\ (last.op = "verify" /\ last.code = 200) => active_tokens = last.pre.tokens

\* An expired token that was neither checked nor revoked is still in the
\* map after a verify of another token.
C15_Witness ==
    /\ last.op = "verify"
    /\ Revoked # None
    /\ \E k \in DOMAIN active_tokens :
          /\ k # Revoked
          /\ last.at >= active_tokens[k]
          /\ now >= active_tokens[k]

----------------------------------------------------------------------------
(* C16 *)

\* The library sequence a mutation request leads to, from the sequence it
\* finds and the request's body or index alone.
Mutated(op, args, links) ==
    IF op = "add"
    THEN IF Truthy(args.name) /\ Truthy(args.url)
         THEN Append(links, Link(args.name, args.url, FALSE))
         ELSE links
    ELSE IF ~(0 <= args.index /\ args.index < Len(links)) THEN links
    ELSE IF op = "delete"
    THEN SubSeq(links, 1, args.index) \o SubSeq(links, args.index + 2, Len(links))
    ELSE [k \in 1..Len(links) |->
             IF k # args.index + 1 THEN links[k]
             ELSE [f \in {"name", "url", "pinned"} |->
                      IF f = "pinned"
                      THEN ~("pinned" \in DOMAIN links[k] /\ links[k]["pinned"])
                      ELSE links[k][f]]]

Accepted(op, args, links) ==
    IF op = "add" THEN Truthy(args.name) /\ Truthy(args.url)
    ELSE 0 <= args.index /\ args.index < Len(links)

\* C16: the answer of an add, delete or pin-toggle and the library sequence
\* and file it leaves are determined by the body or index of the request,
\* the library it finds and whether the file could be written; neither the
\* Authorization header nor the token map enters, no library request is
\* answered 401, and the token map is left as found.
C16_LibraryIgnoresAuth ==
    last.op \in LibraryMutations =>
        LET links == Mutated(last.op, last.args, last.pre.links)
        IN  /\ library_links = links
            /\ active_tokens = last.pre.tokens
            /\ IF ~Accepted(last.op, last.args, last.pre.links)
               THEN last.code = 400 /\ library_file = last.pre.file
               ELSE \/ /\ last.code = 200
                       /\ last.body = [status |-> "success", links |-> links]
                       /\ library_file = JsonText(json_dump(links))
                    \/ /\ last.code = 500
                       /\ library_file \in {last.pre.file, Corrupt}

\* A delete sent without a header to a server on which nobody ever logged
\* in succeeds.
C16_Witness ==
    /\ last.op = "delete" /\ last.code = 200
    /\ last.args.auth = NoHeader
    /\ last.pre.tokens = NoTokens /\ issued = NoTokens
    /\ library_file = JsonText(json_dump(library_links))

\* The same for an add and for a pin-toggle, and a mutation sent with the
\* token of a session that has been revoked.
C16_WitnessAdd ==
    /\ last.op = "add" /\ last.code = 200
    /\ last.args.auth = NoHeader /\ issued = NoTokens

C16_WitnessPin ==
    /\ last.op = "pin" /\ last.code = 200
    /\ last.args.auth = NoHeader /\ issued = NoTokens

C16_WitnessStaleToken ==
    /\ last.op \in LibraryMutations /\ last.code = 200
    /\ IsBearer(last.args.auth)
    /\ BearerToken(last.args.auth) \in DOMAIN issued
    /\ BearerToken(last.args.auth) \notin DOMAIN last.pre.tokens

----------------------------------------------------------------------------
(* C17 *)

\* The last request changed the library sequence or the token map.
ChangedState ==
    /\ last.op \notin {"start", "restart"}
    /\ library_links # last.pre.links \/ active_tokens # last.pre.tokens

\* The last request left its entry at the end of the log buffer.
Logged ==
    /\ last.op \in {"log_ip", "login", "logout", "add", "delete", "pin"}
    /\ server_logs # <<>>
    /\ server_logs[Len(server_logs)] = LogEntry(NewEntry)
    /\ SubSeq(server_logs, 1, Len(server_logs) - 1) = last.pre.logs

\* verify found its token expired and deleted it.
LazyCleanup ==
    /\ last.op = "verify" /\ last.code = 401
    /\ Revoked \in DOMAIN last.pre.tokens
    /\ last.at >= last.pre.tokens[Revoked]

\* The file write of a library mutation failed.
FailedWrite == last.op \in LibraryMutations /\ last.code = 500

\* C17 as stated: every request that changes the library sequence or the
\* token map appends a log entry.
C17_EveryChangeLogged == ChangedState => Logged

\* C17, amended: every add, delete, pin-toggle and login that answers
\* success and every logout with a Bearer header leaves its entry last in
\* the log; a request that changes the library sequence or the token map
\* without a log entry is a verify that deleted its expired token or a
\* library mutation whose file write failed, and both leave the log as found.
C17_ChangeLoggedUnlessCleanupOrFault ==
    /\ (last.op \in {"add", "delete", "pin", "login"} /\ last.code = 200) => Logged
    /\ (last.op = "logout" /\ IsBearer(last.args.auth)) => Logged
    /\ ChangedState =>
          \/ Logged
          \/ (LazyCleanup \/ FailedWrite) /\ server_logs = last.pre.logs

\* A verify deleted an expired token and the log has no entry for it.
C17_Witness ==
    /\ ChangedState /\ LazyCleanup
    /\ Revoked \notin DOMAIN active_tokens
    /\ server_logs = last.pre.logs

\* A logout that revoked a session, logged.
C17_WitnessLogged ==
    /\ ChangedState /\ Logged
    /\ last.op = "logout"

----------------------------------------------------------------------------
(* C18 *)

\* The file holds the JSON text of the sequence.
Agree(file, links) == file = JsonText(json_dump(links))

\* C18 as stated: a failed write keeps the in-memory mutation, ends in a
\* server fault with no log entry, and the file and the in-memory sequence
\* are not brought back in agreement by any later step; here, by the step
\* that follows the failed write.
C18_NeverReconciled ==
    /\ FailedWrite =>
          /\ library_links = Mutated(last.op, last.args, last.pre.links)
          /\ server_logs = last.pre.logs
    /\ before.code = 500 => ~Agree(library_file, library_links)

\* C18, amended: a failed write keeps the in-memory mutation, ends in a
\* server fault with no log entry and leaves the file as it was or
\* truncated, so a file that agreed with the sequence no longer does.  A
\* request that is not a library mutation leaves the file and the sequence
\* as they are; a later add, delete or pin-toggle whose write succeeds
\* rewrites the file from the sequence, and a restart replaces the
\* sequence by what the file holds.
C18_FaultKeepsMutationUntilNextSave ==
    /\ FailedWrite =>
          /\ library_links = Mutated(last.op, last.args, last.pre.links)
          /\ library_links # last.pre.links
          /\ server_logs = last.pre.logs
          /\ last.body = [status |-> "fault"]
          /\ library_file \in {last.pre.file, Corrupt}
          /\ Agree(last.pre.file, last.pre.links) => ~Agree(library_file, library_links)
    /\ last.op \notin LibraryMutations \cup {"start", "restart"} =>
          /\ library_links = last.pre.links
          /\ library_file = last.pre.file
    /\ (last.op \in LibraryMutations /\ last.code = 200) =>
          Agree(library_file, library_links)
    /\ (last.op = "restart" /\ library_file.kind = "json") =>
          Agree(library_file, library_links)

\* A delete or pin-toggle failed to be written, and the add that followed
\* found the file and the sequence apart and left them in agreement.
C18_Witness ==
    /\ before.code = 500
    /\ last.op = "add" /\ last.code = 200
    /\ ~Agree(last.pre.file, last.pre.links)
    /\ Agree(library_file, library_links)

\* A failed write on a file that agreed with the sequence.
C18_WitnessFault ==
    /\ FailedWrite
    /\ Agree(last.pre.file, last.pre.links)
    /\ ~Agree(library_file, library_links)
    /\ library_file = last.pre.file

----------------------------------------------------------------------------
(* C19 *)

\* The positions of the library sequence whose record has the flag set.
FlaggedPositions(links) ==
    {k \in 1..Len(links) : "pinned" \in DOMAIN links[k] /\ links[k]["pinned"] = TRUE}

\* The number of flagged positions up to position k.
Rank(links, k) == Cardinality({j \in FlaggedPositions(links) : j <= k})

\* C19: get_pinned answers with one record for each flagged position of
\* the library sequence, the record of the n-th flagged position in n-th
\* place, and with nothing else; a record without the flag is left out.  It
\* changes neither the sequence, the file, the log buffer nor the token map.
C19_PinnedSubsequence ==
    last.op = "get_pinned" =>
        LET result == last.body.links
            flagged == FlaggedPositions(last.pre.links)
        IN  /\ last.code = 200
            /\ Len(result) = Cardinality(flagged)
            /\ \A k \in flagged : result[Rank(last.pre.links, k)] = last.pre.links[k]
            /\ library_links = last.pre.links
            /\ library_file = last.pre.file
            /\ server_logs = last.pre.logs
            /\ active_tokens = last.pre.tokens

\* The library holds two equal pinned records with an unpinned record
\* between them: the answer holds the two, and not the third.
C19_Witness ==
    /\ last.op = "get_pinned"
    /\ Len(last.pre.links) = 3
    /\ FlaggedPositions(last.pre.links) = {1, 3}
    /\ last.pre.links[1] = last.pre.links[3]
    /\ Len(last.body.links) = 2

\* The library holds a record without the flag, and nothing is returned.
C19_WitnessNoFlag ==
    /\ last.op = "get_pinned"
    /\ \E k \in 1..Len(last.pre.links) : "pinned" \notin DOMAIN last.pre.links[k]
    /\ last.body.links = <<>>

----------------------------------------------------------------------------
(* C20 *)

\* Thread t has answered a delete or pin-toggle request.
AnsweredIndexed(t) ==
    threads[t].pc = "done" /\ threads[t].op \in {"delete", "pin"}

\* C20: also when requests overlap, a delete or pin-toggle ends in success
\* on the record that was at its index when the bounds check ran, or in
\* the 400 answer; it never faults and never acts on another record.
C20_ActsOnCheckedRecord ==
    \A t \in Threads :
        AnsweredIndexed(t) =>
            \/ threads[t].code = 400
            \/ /\ threads[t].code = 200
               /\ threads[t].acted["name"] = threads[t].checked["name"]

\* The two ways the code leaves the claim: a request whose index passed the
\* bounds check faults, and a request succeeds on a record that is not the
\* one its bounds check saw.
C20_Faulted ==
    \E t \in Threads :
        /\ AnsweredIndexed(t) /\ threads[t].code = 500
        /\ threads[t].checked # <<>>

C20_ActedOnOther ==
    \E t \in Threads :
        /\ AnsweredIndexed(t) /\ threads[t].code = 200
        /\ threads[t].acted["name"] # threads[t].checked["name"]

====
